---- MODULE Spec2Model ----
(***************************************************************************)
(* The tutorial scripts of the repository as state machines.               *)
(*                                                                         *)
(*   guardrails_and_tracking.py  the demo driver and its Runner.run calls  *)
(*                               on delegation_agent (blocking guardrail)  *)
(*   main.py                     the module-level statements of the        *)
(*                               advisory variant, executed top to bottom  *)
(*   vectorize_docs.py           the ingestion / status-check process and  *)
(*                               the vendor state its API calls act on     *)
(*                                                                         *)
(* The hosted services (classification, routing and specialist model       *)
(* calls, file upload, vector stores) are the environment: every call may  *)
(* succeed or fail, and a model call may answer any way the agent's        *)
(* configuration in the source allows.                                     *)
(***************************************************************************)
EXTENDS Naturals, Sequences, FiniteSets, TLC

VARIABLES
    \* ---- guardrails_and_tracking.py: the driver main()
    drvPc,      \* "call" | "await" | "exit0" | "crash"
    runIdx,     \* index into Runs of the Runner.run call at hand
    seen,       \* what main() observed of each finished run
    \* ---- guardrails_and_tracking.py: the Runner.run call at hand
    gr,         \* input guardrail: "idle" | "pending" | "pass" | "trip" | "error"
    verdict,    \* classification: "none" | "business" | "non_business" | "failed"
    cur,        \* the agent whose turn it is
    ts,         \* its turn: "idle" | "pending" | "handoff" | "final" | "error"
    nxt,        \* the handoff target the turn selected, or "none"
    invoked,    \* the specialists whose turn has been started in this run
    ends,       \* the terminal outcomes this Runner.run call has produced
    \* ---- main.py: module execution
    advPc,      \* index of the next module-level statement
    advNames,   \* the names bound in the module namespace
    advStatus,  \* "loading" | "NameError" | "main"
    \* ---- vectorize_docs.py: the process
    inv,        \* how many times the script has been started
    args,       \* sys.argv[1:] as [flag, ids]
    envKey,     \* OPENAI_API_KEY is set
    fileExists, \* test.pdf exists
    ipc,        \* position in the script
    calls,      \* the file and API calls this process has made, in order
    file_id,
    vector_store_id,
    snap,       \* the vendor state when the process started
    \* ---- vectorize_docs.py: the vendor's state
    files,      \* uploaded file ids
    stores,     \* vector store ids
    status      \* <<store, file>> -> processing status of the attachment

runVars == <<gr, verdict, cur, ts, nxt, invoked, ends>>
drvVars == <<drvPc, runIdx, seen>>
advVars == <<advPc, advNames, advStatus>>
ingVars == <<inv, args, envKey, fileExists, ipc, calls, file_id,
             vector_store_id, snap, files, stores, status>>
vars == <<drvVars, runVars, advVars, ingVars>>

(***************************************************************************)
(* guardrails_and_tracking.py                                              *)
(***************************************************************************)

Specialists == {"rag_agent", "search_agent"}

StartingAgent == "delegation_agent"

\* A specialist that could hand on to the other one.
HandoffsChained(a) ==
    IF a = "delegation_agent" THEN {"rag_agent", "search_agent"}
    ELSE IF a = "rag_agent" THEN {"search_agent"}
    ELSE {}

\* handoffs= of each Agent(...): only delegation_agent is given any.
Handoffs(a) ==
    IF a = "delegation_agent" THEN {"rag_agent", "search_agent"} ELSE {}

\* input_guardrails= of each Agent(...).
InputGuardrails(a) ==
    IF a = "delegation_agent" THEN {"business_query_guardrail"} ELSE {}

\* What the awaited Runner.run(guardrail_agent, ...) can give the guardrail
\* function: a BusinessQueryClassification, or an exception.
ClassifierResults ==
    { [ok |-> TRUE,  is_business_related |-> TRUE],
      [ok |-> TRUE,  is_business_related |-> FALSE],
      [ok |-> FALSE, is_business_related |-> FALSE] }

\* A guardrail that only classifies (the tripwire is never set).
GuardrailAdvisory(res) ==
    [raised |-> ~res.ok, tripwire_triggered |-> FALSE]

\* A guardrail that swallows a failed classification and accepts.
GuardrailFailOpen(res) ==
    IF ~res.ok THEN [raised |-> FALSE, tripwire_triggered |-> FALSE]
    ELSE [raised |-> FALSE, tripwire_triggered |-> ~res.is_business_related]

\* business_query_guardrail: the await is not inside any try, so an
\* exception of the classification call leaves the function; otherwise the
\* tripwire is set exactly when the query is not business related.
business_query_guardrail(res) ==
    IF ~res.ok THEN [raised |-> TRUE, tripwire_triggered |-> FALSE]
    ELSE IF ~res.is_business_related
         THEN [raised |-> FALSE, tripwire_triggered |-> TRUE]
         ELSE [raised |-> FALSE, tripwire_triggered |-> FALSE]

\* The three Runner.run calls of main(), in order.
Runs == <<"document_query", "web_query", "non_business_query">>

\* The calls made inside try: ... except InputGuardrailTripwireTriggered.
TryExcept == {"non_business_query"}

Outcome == IF ends = <<>> THEN "none" ELSE ends[Len(ends)]

\* A join that lets the run go on while the guardrail is still pending.
JoinedEarly == gr \in {"pass", "pending"}

\* The input guardrails of the starting agent are started together with its
\* first turn, and the run goes past that turn only once they have passed.
Joined == gr = "pass"

\* What main() sees of a Runner.run call that ended with outcome o.
Observe(q, o) ==
    IF o = "DONE" THEN "result"
    ELSE IF o = "REJECTED" /\ q \in TryExcept THEN "Guardrail triggered"
    ELSE "unhandled"

\* What the model call of agent a's turn can come back with.
TurnResults(a) == {"final", "error"} \cup Handoffs(a)

\* main(): await Runner.run(delegation_agent, query, run_config=...)
RunnerRun ==
    /\ drvPc = "call"
    /\ drvPc' = "await"
    /\ gr' = IF InputGuardrails(StartingAgent) = {} THEN "pass" ELSE "pending"
    /\ UNCHANGED <<runIdx, seen, verdict, cur, ts, nxt, invoked, ends>>
    /\ UNCHANGED <<advVars, ingVars>>

\* The guardrail function's classification call comes back and the
\* function returns or raises; a tripwire or an exception ends the run.
GuardrailReturn ==
    /\ drvPc = "await" /\ Outcome = "none"
    /\ gr = "pending"
    /\ \E res \in ClassifierResults :
         LET out == business_query_guardrail(res) IN
           /\ verdict' = IF ~res.ok THEN "failed"
                         ELSE IF res.is_business_related THEN "business"
                         ELSE "non_business"
           /\ gr' = IF out.raised THEN "error"
                    ELSE IF out.tripwire_triggered THEN "trip" ELSE "pass"
           /\ ends' = IF out.raised THEN Append(ends, "FAILED")
                      ELSE IF out.tripwire_triggered
                           THEN Append(ends, "REJECTED") ELSE ends
    /\ UNCHANGED <<drvVars, cur, ts, nxt, invoked>>
    /\ UNCHANGED <<advVars, ingVars>>

\* The current agent's turn starts: its model call is sent.
TurnStart ==
    /\ drvPc = "await" /\ Outcome = "none"
    /\ gr # "idle" /\ ts = "idle"
    /\ ts' = "pending"
    /\ invoked' = invoked \cup ({cur} \cap Specialists)
    /\ UNCHANGED <<drvVars, gr, verdict, cur, nxt, ends>>
    /\ UNCHANGED <<advVars, ingVars>>

\* The model call comes back: a final answer, a handoff to one of the
\* agent's handoffs, or a failure, which ends the run.
TurnRespond ==
    /\ drvPc = "await" /\ Outcome = "none"
    /\ ts = "pending"
    /\ \E r \in TurnResults(cur) :
         /\ ts' = IF r \in {"final", "error"} THEN r ELSE "handoff"
         /\ nxt' = IF r \in {"final", "error"} THEN "none" ELSE r
         /\ ends' = IF r = "error" THEN Append(ends, "FAILED") ELSE ends
    /\ UNCHANGED <<drvVars, gr, verdict, cur, invoked>>
    /\ UNCHANGED <<advVars, ingVars>>

\* After the turn: a final answer ends the run, a handoff makes the
\* selected agent the current one.
NextStep ==
    /\ drvPc = "await" /\ Outcome = "none"
    /\ ts \in {"final", "handoff"}
    /\ Joined
    /\ IF ts = "final"
       THEN /\ ends' = Append(ends, "DONE")
            /\ UNCHANGED <<cur, ts, nxt>>
       ELSE /\ cur' = nxt
            /\ ts' = "idle"
            /\ nxt' = "none"
            /\ UNCHANGED ends
    /\ UNCHANGED <<drvVars, gr, verdict, invoked>>
    /\ UNCHANGED <<advVars, ingVars>>

\* main() resumes: the result is printed and the next call is made, the
\* tripwire exception is caught where there is a try, and any other
\* exception leaves main() and ends the process.
DriverResume ==
    /\ drvPc = "await" /\ Outcome # "none"
    /\ LET obs == Observe(Runs[runIdx], Outcome) IN
         /\ seen' = Append(seen, [query |-> Runs[runIdx],
                                  outcome |-> Outcome, obs |-> obs])
         /\ IF obs = "unhandled"
            THEN /\ drvPc' = "crash"
                 /\ UNCHANGED <<runIdx, runVars>>
            ELSE IF runIdx = Len(Runs)
            THEN /\ drvPc' = "exit0"
                 /\ UNCHANGED <<runIdx, runVars>>
            ELSE /\ drvPc' = "call"
                 /\ runIdx' = runIdx + 1
                 /\ gr' = "idle" /\ verdict' = "none"
                 /\ cur' = StartingAgent /\ ts' = "idle" /\ nxt' = "none"
                 /\ invoked' = {} /\ ends' = <<>>
    /\ UNCHANGED <<advVars, ingVars>>

(***************************************************************************)
(* main.py: the module-level statements, with the names each one binds     *)
(* and the names its evaluation reads.  A def binds its name without       *)
(* evaluating its body.                                                    *)
(***************************************************************************)

MainPy == <<
    [line |-> 1,   binds |-> {"asyncio"}, uses |-> {}],
    [line |-> 2,   binds |-> {"BaseModel"}, uses |-> {}],
    [line |-> 3,   binds |-> {"Agent", "InputGuardrail",
                              "GuardrailFunctionOutput", "Runner",
                              "FileSearchTool", "WebSearchTool",
                              "function_tool", "RunConfig"}, uses |-> {}],
    [line |-> 18,  binds |-> {"document_file_search"},
                   uses |-> {"FileSearchTool"}],
    [line |-> 24,  binds |-> {"rag_agent"},
                   uses |-> {"Agent", "document_file_search"}],
    [line |-> 36,  binds |-> {"web_search"}, uses |-> {"WebSearchTool"}],
    [line |-> 39,  binds |-> {"search_agent"},
                   uses |-> {"Agent", "web_search"}],
    [line |-> 51,  binds |-> {"delegation_agent"},
                   uses |-> {"Agent", "rag_agent", "search_agent",
                             "InputGuardrail", "topic_classifier_guardrail"}],
    [line |-> 67,  binds |-> {"TopicClassification"}, uses |-> {"BaseModel"}],
    [line |-> 74,  binds |-> {"guardrail_agent"},
                   uses |-> {"Agent", "TopicClassification"}],
    [line |-> 81,  binds |-> {"topic_classifier_guardrail"}, uses |-> {}],
    [line |-> 96,  binds |-> {"main"}, uses |-> {}],
    [line |-> 122, binds |-> {}, uses |-> {"asyncio", "main"}] >>

\* topic_classifier_guardrail: the tripwire is never set.
topic_classifier_guardrail(res) ==
    [raised |-> ~res.ok, tripwire_triggered |-> FALSE]

\* The interpreter executes the next statement of main.py: reading a name
\* that is not bound raises NameError, which ends the process.
ExecStatement ==
    /\ advStatus = "loading"
    /\ LET s == MainPy[advPc] IN
         IF s.uses \subseteq advNames
         THEN /\ advNames' = advNames \cup s.binds
              /\ advPc' = advPc + 1
              /\ advStatus' = IF advPc = Len(MainPy) THEN "main" ELSE "loading"
         ELSE /\ advStatus' = "NameError"
              /\ UNCHANGED <<advPc, advNames>>
    /\ UNCHANGED <<drvVars, runVars, ingVars>>

(***************************************************************************)
(* vectorize_docs.py                                                       *)
(***************************************************************************)

MaxInvocations == 3

\* if __name__ == "__main__": which function sys.argv selects.
Mode(a) ==
    IF a.flag = "--check-only"
    THEN IF Len(a.ids) > 0 THEN "check" ELSE "usage"
    ELSE "ingest"

\* The command lines the script can be started with: no argument, another
\* first argument, --check-only alone, --check-only with the id of a
\* vector store or with an id the vendor does not know (0).
ArgChoices ==
    { [flag |-> "none", ids |-> <<>>], [flag |-> "other", ids |-> <<>>],
      [flag |-> "--check-only", ids |-> <<>>] }
    \cup { [flag |-> "--check-only", ids |-> <<s>>] : s \in stores \cup {0} }

\* Handlers that get an except clause wrong: one that passes where the
\* script exits, one that exits where the script passes.
OnUploadErrorPass == "pass"

OnAttachErrorPass == "pass"

OnListErrorExit == "exit1"

\* The except clauses of vectorize_document's four try blocks.
OnUploadError == "exit1"

OnCreateError == "exit1"

OnAttachError == "exit1"

OnListError == "pass"

\* The identifier the vendor gives a new object.
NewId(S) == Cardinality(S) + 1

Ended == ipc \in {"exit0", "exit1"}

Call(op, ok, arg) == [op |-> op, ok |-> ok, arg |-> arg]

\* After a call: go on when it succeeded or its handler passes, else exit.
After(ok, handler, next) == IF ok \/ handler = "pass" THEN next ELSE "exit1"

\* The script is started; a --check-only without an id exits with 1.
Invoke ==
    /\ ipc \in {"idle", "exit0", "exit1"}
    /\ inv < MaxInvocations
    /\ inv' = inv + 1
    /\ \E a \in ArgChoices :
         /\ args' = a
         /\ ipc' = IF Mode(a) = "ingest" THEN "client"
                   ELSE IF Mode(a) = "check" THEN "check_client" ELSE "exit1"
    /\ envKey' \in BOOLEAN
    /\ fileExists' \in BOOLEAN
    /\ calls' = <<>>
    /\ file_id' = 0
    /\ vector_store_id' = 0
    /\ snap' = [files |-> files, stores |-> stores, attached |-> DOMAIN status]
    /\ UNCHANGED <<files, stores, status>>
    /\ UNCHANGED <<drvVars, runVars, advVars>>

\* vectorize_document: client = OpenAI().  Without a key the constructor
\* may raise, which ends the process with a traceback.
NewClient ==
    /\ ipc = "client"
    /\ \E raises \in IF envKey THEN {FALSE} ELSE BOOLEAN :
         ipc' = IF raises THEN "exit1" ELSE "keycheck"
    /\ UNCHANGED <<inv, args, envKey, fileExists, calls, file_id,
                   vector_store_id, snap, files, stores, status>>
    /\ UNCHANGED <<drvVars, runVars, advVars>>

\* if not os.getenv("OPENAI_API_KEY"): sys.exit(1)
KeyCheck ==
    /\ ipc = "keycheck"
    /\ ipc' = IF envKey THEN "open" ELSE "exit1"
    /\ UNCHANGED <<inv, args, envKey, fileExists, calls, file_id,
                   vector_store_id, snap, files, stores, status>>
    /\ UNCHANGED <<drvVars, runVars, advVars>>

\* with open("test.pdf", "rb"): FileNotFoundError exits with 1.
OpenFile ==
    /\ ipc = "open"
    /\ calls' = Append(calls, Call("open", fileExists, 0))
    /\ ipc' = IF fileExists THEN "upload" ELSE "exit1"
    /\ UNCHANGED <<inv, args, envKey, fileExists, file_id,
                   vector_store_id, snap, files, stores, status>>
    /\ UNCHANGED <<drvVars, runVars, advVars>>

\* Step 1: client.files.create(...)
Upload ==
    /\ ipc = "upload"
    /\ \E ok \in BOOLEAN :
         /\ calls' = Append(calls, Call("upload", ok, 0))
         /\ files' = IF ok THEN files \cup {NewId(files)} ELSE files
         /\ file_id' = IF ok THEN NewId(files) ELSE file_id
         /\ ipc' = After(ok, OnUploadError, "create")
    /\ UNCHANGED <<inv, args, envKey, fileExists,
                   vector_store_id, snap, stores, status>>
    /\ UNCHANGED <<drvVars, runVars, advVars>>

\* Step 2: client.vector_stores.create(...)
CreateStore ==
    /\ ipc = "create"
    /\ \E ok \in BOOLEAN :
         /\ calls' = Append(calls, Call("create", ok, 0))
         /\ stores' = IF ok THEN stores \cup {NewId(stores)} ELSE stores
         /\ vector_store_id' = IF ok THEN NewId(stores) ELSE vector_store_id
         /\ ipc' = After(ok, OnCreateError, "attach")
    /\ UNCHANGED <<inv, args, envKey, fileExists, file_id,
                   snap, files, status>>
    /\ UNCHANGED <<drvVars, runVars, advVars>>

\* Step 3: client.vector_stores.files.create(...): the vendor starts
\* processing the attached file.
Attach ==
    /\ ipc = "attach"
    /\ \E ok \in BOOLEAN :
         /\ calls' = Append(calls, Call("attach", ok, vector_store_id))
         /\ status' = IF ok
                      THEN status @@ (<<vector_store_id, file_id>> :> "in_progress")
                      ELSE status
         /\ ipc' = After(ok, OnAttachError, "list")
    /\ UNCHANGED <<inv, args, envKey, fileExists, file_id,
                   vector_store_id, snap, files, stores>>
    /\ UNCHANGED <<drvVars, runVars, advVars>>

\* Step 4: client.vector_stores.files.list(...), then return
\* vector_store_id: the process ends normally.
ListStatus ==
    /\ ipc = "list"
    /\ \E ok \in BOOLEAN :
         /\ calls' = Append(calls, Call("list", ok, vector_store_id))
         /\ ipc' = After(ok, OnListError, "exit0")
    /\ UNCHANGED <<inv, args, envKey, fileExists, file_id,
                   vector_store_id, snap, files, stores, status>>
    /\ UNCHANGED <<drvVars, runVars, advVars>>

\* check_status: client = OpenAI(), outside the try.
CheckClient ==
    /\ ipc = "check_client"
    /\ \E raises \in IF envKey THEN {FALSE} ELSE BOOLEAN :
         ipc' = IF raises THEN "exit1" ELSE "check_list"
    /\ UNCHANGED <<inv, args, envKey, fileExists, calls, file_id,
                   vector_store_id, snap, files, stores, status>>
    /\ UNCHANGED <<drvVars, runVars, advVars>>

\* A status check that rebuilds the store it was asked about.
CheckListRecreate ==
    /\ ipc = "check_list"
    /\ calls' = Append(calls, Call("create", TRUE, 0))
    /\ stores' = stores \cup {NewId(stores)}
    /\ ipc' = "exit0"
    /\ UNCHANGED <<inv, args, envKey, fileExists, file_id,
                   vector_store_id, snap, files, status>>
    /\ UNCHANGED <<drvVars, runVars, advVars>>

\* check_status: client.vector_stores.files.list(vector_store_id=...);
\* the listing is read and dropped, an exception is passed over.
CheckList ==
    /\ ipc = "check_list"
    /\ \E ok \in IF args.ids[1] \in stores THEN BOOLEAN ELSE {FALSE} :
         calls' = Append(calls, Call("list", ok, args.ids[1]))
    /\ ipc' = "exit0"
    /\ UNCHANGED <<inv, args, envKey, fileExists, file_id,
                   vector_store_id, snap, files, stores, status>>
    /\ UNCHANGED <<drvVars, runVars, advVars>>

\* The vendor finishes processing an attached file.
VendorProcess ==
    /\ \E p \in DOMAIN status :
         /\ status[p] = "in_progress"
         /\ \E s \in {"completed", "failed"} :
              status' = [status EXCEPT ![p] = s]
    /\ UNCHANGED <<inv, args, envKey, fileExists, ipc, calls, file_id,
                   vector_store_id, snap, files, stores>>
    /\ UNCHANGED <<drvVars, runVars, advVars>>

(***************************************************************************)
(* Specifications                                                          *)
(***************************************************************************)

Init ==
    /\ drvPc = "call" /\ runIdx = 1 /\ seen = <<>>
    /\ gr = "idle" /\ verdict = "none" /\ cur = StartingAgent
    /\ ts = "idle" /\ nxt = "none" /\ invoked = {} /\ ends = <<>>
    /\ advPc = 1 /\ advNames = {} /\ advStatus = "loading"
    /\ inv = 0 /\ args = [flag |-> "none", ids |-> <<>>]
    /\ envKey = TRUE /\ fileExists = TRUE
    /\ ipc = "idle" /\ calls = <<>> /\ file_id = 0 /\ vector_store_id = 0
    /\ snap = [files |-> {}, stores |-> {}, attached |-> {}]
    /\ files = {} /\ stores = {} /\ status = <<>>

\* The two agent scripts.
Next ==
    \/ RunnerRun
    \/ GuardrailReturn
    \/ TurnStart
    \/ TurnRespond
    \/ NextStep
    \/ DriverResume
    \/ ExecStatement

Spec == Init /\ [][Next]_vars

\* Every call to a hosted service comes back, and the interpreter and the
\* event loop keep running what is runnable.
FairSpec == Spec /\ WF_vars(Next)

\* The ingestion script, started up to MaxInvocations times, and the vendor.
NextIngest ==
    \/ Invoke
    \/ NewClient
    \/ KeyCheck
    \/ OpenFile
    \/ Upload
    \/ CreateStore
    \/ Attach
    \/ ListStatus
    \/ CheckClient
    \/ CheckList
    \/ VendorProcess

SpecIngest == Init /\ [][NextIngest]_vars

(***************************************************************************)
(* Properties of the blocking variant                                      *)
(***************************************************************************)

\* The orchestrator state of the spec's state machine, read off the run.
Phase ==
    IF Outcome # "none" THEN Outcome
    ELSE IF gr = "idle" THEN "START"
    ELSE IF gr = "pending" THEN "GUARDRAIL_PENDING"
    ELSE IF cur = StartingAgent THEN "ROUTING_PENDING"
    ELSE "SPECIALIST_PENDING"

\* C1: in the blocking variant, a query classified as not business related
\* has the tripwire set, its run ends REJECTED, and no specialist's turn has
\* been started at any point of that run.
C1_RejectedNeverReachesSpecialist ==
    verdict = "non_business" =>
        gr = "trip" /\ Outcome = "REJECTED" /\ invoked = {}

\* A rejected run whose delegation agent had already chosen a specialist.
C1_Witness ==
    /\ verdict = "non_business" /\ Outcome = "REJECTED"
    /\ ts = "handoff" /\ nxt \in Specialists /\ invoked = {}

C2_Safety ==
    verdict = "business" =>
        /\ Cardinality(invoked) <= 1
        /\ Outcome \in {"none", "DONE", "FAILED"}
        /\ Len(ends) <= 1

\* C2: a run whose query is classified as business related ends, and ends
\* exactly once, as DONE or as FAILED, and at most one of the two
\* specialists has its turn started in it.
C2_InDomainEndsOnceWithOneSpecialist ==
    /\ []C2_Safety
    /\ [](verdict = "business" => <>(Outcome \in {"DONE", "FAILED"}))

\* An accepted run that ended DONE through one specialist.
C2_Witness ==
    /\ verdict = "business" /\ Outcome = "DONE"
    /\ cur \in Specialists /\ invoked = {cur}

StepsOfSpec ==
    { <<"START", "GUARDRAIL_PENDING">>,
      <<"GUARDRAIL_PENDING", "REJECTED">>,
      <<"GUARDRAIL_PENDING", "ROUTING_PENDING">>,
      <<"ROUTING_PENDING", "SPECIALIST_PENDING">>,
      <<"SPECIALIST_PENDING", "DONE">>,
      <<"SPECIALIST_PENDING", "FAILED">> }

StepsOfCode ==
    StepsOfSpec \cup { <<"GUARDRAIL_PENDING", "FAILED">>,
                       <<"ROUTING_PENDING", "DONE">>,
                       <<"ROUTING_PENDING", "FAILED">> }

\* A step stays in the orchestrator state, follows one of the arrows of S,
\* or is main() going on to its next Runner.run call.
Follows(S) ==
    \/ Phase' = Phase
    \/ <<Phase, Phase'>> \in S
    \/ runIdx' # runIdx /\ Phase' = "START"

C4_FailedClassificationFailsRun ==
    verdict = "failed" =>
        gr = "error" /\ Outcome = "FAILED" /\ invoked = {}

\* A failed classification in a run whose delegation agent had already
\* chosen a specialist.
C4_Witness ==
    /\ verdict = "failed" /\ Outcome = "FAILED"
    /\ ts = "handoff" /\ nxt \in Specialists /\ invoked = {}

\* C10: whichever of main()'s three runs the guardrail trips in, main()
\* handles the rejection ("Guardrail triggered"); it is never the unhandled
\* exception that a failed call is.
C10_RejectionHandledInEveryRun ==
    \A i \in DOMAIN seen :
        seen[i].outcome = "REJECTED" => seen[i].obs = "Guardrail triggered"

(***************************************************************************)
(* Properties of the advisory variant                                      *)
(***************************************************************************)

\* C5: in main.py the guardrail never sets the tripwire, whatever the
\* classifier says, and the script gets its queries to the delegation
\* agent: it does not stop before main() is called.
C5_AdvisoryNeverBlocksRouting ==
    /\ \A res \in ClassifierResults :
           res.ok => ~topic_classifier_guardrail(res).tripwire_triggered
    /\ advStatus # "NameError"

\* C11: start-up of main.py completes: every module-level statement,
\* the construction of delegation_agent among them, finds the names it
\* reads already bound, and module execution ends only by calling main().
C11_StartupReachesMain ==
    /\ advStatus = "loading" => MainPy[advPc].uses \subseteq advNames
    /\ advStatus # "loading" => advStatus = "main"

(***************************************************************************)
(* Properties of the ingestion script                                      *)
(***************************************************************************)

IsIngest == inv > 0 /\ Mode(args) = "ingest"

Succeeded(op) == \E i \in DOMAIN calls : calls[i].op = op /\ calls[i].ok

Failed(op) == \E i \in DOMAIN calls : calls[i].op = op /\ ~calls[i].ok

Count(op) == Cardinality({i \in DOMAIN calls : calls[i].op = op})

Order == <<"open", "upload", "create", "attach", "list">>

\* C6: an ingestion run that ended without a key, without test.pdf, or
\* with a failed upload, create or attach call ended with status 1; one
\* that ended with status 0 had the key, the file, and all three calls
\* succeed.
C6_IngestExitStatus ==
    (IsIngest /\ Ended) =>
        /\ (~envKey \/ ~fileExists \/ Failed("upload") \/ Failed("create")
               \/ Failed("attach")) => ipc = "exit1"
        /\ ipc = "exit0" =>
               /\ envKey /\ fileExists
               /\ Succeeded("upload") /\ Succeeded("create")
               /\ Succeeded("attach")

\* An ingestion run whose attach call failed, after upload and create.
C6_Witness ==
    /\ IsIngest /\ ipc = "exit1" /\ Failed("attach")
    /\ Succeeded("upload") /\ Succeeded("create")
    /\ file_id \in files /\ vector_store_id \in stores

\* C7 as stated: an ingestion run that attached the file does not finish
\* while the attachment is still in progress.
C7_FinishesOnlyWhenProcessed ==
    (IsIngest /\ Ended /\ Succeeded("attach")) =>
        status[<<vector_store_id, file_id>>] # "in_progress"

\* C7 (amended): after attaching the file the ingestion run requests the
\* status listing exactly once and then ends normally, whether the listing
\* succeeded or not and whatever state the attachment is in.
C7_ListsStatusOnce ==
    (IsIngest /\ Succeeded("attach")) =>
        /\ Count("list") <= 1
        /\ Ended => (ipc = "exit0" /\ Count("list") = 1)

\* An ingestion run that ended while its attachment was in progress.
C7_Witness ==
    /\ IsIngest /\ ipc = "exit0" /\ Succeeded("attach") /\ Succeeded("list")
    /\ status[<<vector_store_id, file_id>>] = "in_progress"

\* C8: a run started with --check-only leaves the uploaded files, the
\* vector stores and the files attached to each store as they were when it
\* started, and the only call it makes is a status listing for the id on
\* its command line.
C8_CheckOnlyChangesNothing ==
    (inv > 0 /\ args.flag = "--check-only") =>
        /\ files = snap.files
        /\ stores = snap.stores
        /\ DOMAIN status = snap.attached
        /\ \A i \in DOMAIN calls :
               /\ calls[i].op = "list"
               /\ Len(args.ids) > 0
               /\ calls[i].arg = args.ids[1]

\* A finished status check of a store that has a file attached.
C8_Witness ==
    /\ inv > 1 /\ Mode(args) = "check" /\ ipc = "exit0"
    /\ Len(calls) = 1 /\ calls[1].ok
    /\ \E p \in DOMAIN status : p[1] = args.ids[1]

\* C9: an ingestion run makes its calls in the order open, upload, create,
\* attach, list, each at most once and each only after all the earlier ones
\* succeeded; without test.pdf it makes no upload, create or attach call
\* and ends with status 1.
C9_StepsInOrder ==
    IsIngest =>
        /\ Len(calls) <= Len(Order)
        /\ \A i \in DOMAIN calls :
               /\ calls[i].op = Order[i]
               /\ i < Len(calls) => calls[i].ok
        /\ ~fileExists =>
               /\ Count("upload") = 0 /\ Count("create") = 0
               /\ Count("attach") = 0
               /\ Ended => ipc = "exit1"

\* An ingestion run that found no test.pdf.
C9_Witness ==
    /\ IsIngest /\ envKey /\ ~fileExists /\ ipc = "exit1"
    /\ Len(calls) = 1 /\ calls[1].op = "open" /\ ~calls[1].ok

====
